---- MODULE Spec2Model ----
(***************************************************************************)
(* A model of pISO (src/pISO.old/src/piso.cpp): the controller that owns   *)
(* the virtual drives (m_drives), the menu item list (m_list_items), the   *)
(* selection cursor (m_selection), and talks to the LVM backend.           *)
(*                                                                         *)
(* The process is single threaded.  add_drive blocks on five backend       *)
(* commands, each of which may end the process (piso_error), so add_drive  *)
(* is modelled as one step per backend command; while it is in progress    *)
(* (pc # "idle") no other operation can run.                               *)
(***************************************************************************)
EXTENDS Integers, Sequences, FiniteSets, TLC

\* ------------------------------------------------------------------ bounds

\* add_drive is not offered once m_drives holds this many drives.
MaxDrives == 3
\* The backend reports at most this many virtual volumes at start-up.
MaxInit == 2

\* ---------------------------------------------------------------- constants

Formats == {"WINDOWS", "LINUX", "MAC", "UNIVERSAL"}
Sizes == {1000000000, 2000000000}

\* "Drive" + std::to_string(n): a name is the pair of its prefix and number.
DriveName(n) == <<"Drive", n>>
THINPOOL_NAME == <<"thinpool", 0>>

\* The names a caller may hand to remove_drive, and the backend may hold.
Names == {DriveName(n) : n \in 1..(MaxDrives + 1)}

VARIABLES
    backend,        \* the LVM volumes, in report order: [name, attr, stage]
    m_drives,       \* pISO::m_drives: [name, mount, focused]
    m_newdrive,     \* pISO::m_newdrive: [focused]
    m_options,      \* pISO::m_options: [focused]
    m_list_items,   \* GUIListItem::m_list_items: pointers [kind, idx]
    m_selection,    \* GUIListItem::m_selection: a position of m_list_items
    ptrs_invalid,   \* m_drives was modified since m_list_items was filled
    pc,             \* where the running add_drive stands, "idle" otherwise
    cur,            \* the running add_drive's locals: name, format, first_partition
    halted,         \* piso_error ended the process
    oplog,          \* what the current (or last) operation did, in order
    flog,           \* the on_lose_focus / on_focus calls of that operation
    removed,        \* history: the names remove_drive has erased
    item_renders,   \* what each item's render() returns when asked
    frame           \* what the last render() returned

ctl == <<backend, m_drives, m_newdrive, m_options, m_list_items, m_selection,
         ptrs_invalid, pc, cur, halted, oplog, flog, removed>>

vars == <<ctl, item_renders, frame>>

\* ------------------------------------------------------------- the backend

\* data_percent is kept in hundredths: 3725 is the report's "37.25".
Volume(name, attr, stage, data_percent) ==
    [name |-> name, attr |-> attr, stage |-> stage, data_percent |-> data_percent]

VolumeNames(vols) == {vols[i].name : i \in 1..Len(vols)}

\* volume["lv_attr"].asString()[0] == 'V'
IsVirtual(volume) == volume.attr = "V"

\* lvcreate -V <size>B -T vg/thinpool -n name: LVM needs the thin pool and
\* refuses a name the volume group already holds.
lvcreate_accepts(vols, name) ==
    /\ THINPOOL_NAME \in VolumeNames(vols)
    /\ name \notin VolumeNames(vols)

\* lvremove vg/name -y: LVM refuses a name it does not hold.
lvremove_accepts(vols, name) == name \in VolumeNames(vols)

RECURSIVE VirtualVolumes(_)
\* The volumes of a report that are virtual, in report order.
VirtualVolumes(vols) ==
    IF vols = <<>> THEN <<>>
    ELSE IF IsVirtual(Head(vols))
         THEN <<Head(vols)>> \o VirtualVolumes(Tail(vols))
         ELSE VirtualVolumes(Tail(vols))

RECURSIVE WithoutVolume(_, _)
\* The volumes left when lvremove has deleted the one called name.
WithoutVolume(vols, name) ==
    IF vols = <<>> THEN <<>>
    ELSE IF Head(vols).name = name
         THEN WithoutVolume(Tail(vols), name)
         ELSE <<Head(vols)>> \o WithoutVolume(Tail(vols), name)

SetStage(vols, name, stage) ==
    [i \in 1..Len(vols) |->
        IF vols[i].name = name THEN [vols[i] EXCEPT !.stage = stage] ELSE vols[i]]

\* --------------------------------------------------------------- the items

\* VirtualDrive(name): a fresh drive object knows its name only.
VirtualDrive(name) == [name |-> name, mount |-> "unmounted", focused |-> FALSE]

\* VirtualDrive::mount_external(), on the object.
mount_external(drive) == [drive EXCEPT !.mount = "mounted-external"]

DrivePtr(i) == [kind |-> "drive", idx |-> i]
NewDrivePtr == [kind |-> "newdrive", idx |-> 0]
OptionsPtr == [kind |-> "options", idx |-> 0]

\* The objects a pointer of m_list_items can reach.
Store(drives, newdrive, options) ==
    [drives |-> drives, newdrive |-> newdrive, options |-> options]

SetFocused(st, ptr, b) ==
    CASE ptr.kind = "drive" ->
            IF ptr.idx \in 1..Len(st.drives)
            THEN [st EXCEPT !.drives[ptr.idx].focused = b]
            ELSE st
      [] ptr.kind = "newdrive" -> [st EXCEPT !.newdrive.focused = b]
      [] OTHER -> [st EXCEPT !.options.focused = b]

on_lose_focus(st, ptr) == SetFocused(st, ptr, FALSE)
on_focus(st, ptr) == SetFocused(st, ptr, TRUE)

IsFocused(st, ptr) ==
    CASE ptr.kind = "drive" ->
            ptr.idx \in 1..Len(st.drives) /\ st.drives[ptr.idx].focused
      [] ptr.kind = "newdrive" -> st.newdrive.focused
      [] OTHER -> st.options.focused

LoseEv(ptr) == [ev |-> "on_lose_focus", item |-> ptr]
FocusEv(ptr) == [ev |-> "on_focus", item |-> ptr]

\* ------------------------------------------------------- update_list_items

\* The list filled with m_options ahead of m_newdrive.
ListOf_swapped(drives) ==
    [i \in 1..Len(drives) |-> DrivePtr(i)] \o <<OptionsPtr, NewDrivePtr>>

\* m_list_items.clear(); one pointer per drive; then m_newdrive, m_options.
ListOf(drives) ==
    [i \in 1..Len(drives) |-> DrivePtr(i)] \o <<NewDrivePtr, OptionsPtr>>

\* for (const auto &item : m_list_items) item->on_lose_focus();
RECURSIVE LoseFocusAll(_, _)
LoseFocusAll(st, list) ==
    IF list = <<>> THEN st
    ELSE LoseFocusAll(on_lose_focus(st, Head(list)), Tail(list))

LoseFocusEvents(list) == [i \in 1..Len(list) |-> LoseEv(list[i])]

\* GUIListItem::has_selection(): the cursor is not end().
has_selection(list, sel) == sel \in 1..Len(list)

\* What update_list_items computes from the drives the caller has just built
\* and the two action items: the new list, the cursor, the objects after the
\* focus calls, and those calls in order.
ListUpdate(drives, newdrive, options) ==
    LET list == ListOf(drives)
        st1 == LoseFocusAll(Store(drives, newdrive, options), list)
        sel == 1
    IN  [list |-> list,
         sel |-> sel,
         st |-> IF has_selection(list, sel) THEN on_focus(st1, list[sel]) ELSE st1,
         calls |-> LoseFocusEvents(list)
                   \o (IF has_selection(list, sel) THEN <<FocusEv(list[sel])>> ELSE <<>>)]

\* update_list_items without its on_lose_focus loop.
update_list_items_no_lose(drives) ==
    LET list == ListOf(drives)
        st == on_focus(Store(drives, m_newdrive, m_options), list[1])
    IN  /\ m_list_items' = list
        /\ m_selection' = 1
        /\ m_drives' = st.drives
        /\ m_newdrive' = st.newdrive
        /\ m_options' = st.options
        /\ ptrs_invalid' = FALSE
        /\ flog' = <<FocusEv(list[1])>>

\* pISO::update_list_items().
update_list_items(drives) ==
    LET u == ListUpdate(drives, m_newdrive, m_options)
    IN  /\ m_list_items' = u.list
        /\ m_selection' = u.sel
        /\ m_drives' = u.st.drives
        /\ m_newdrive' = u.st.newdrive
        /\ m_options' = u.st.options
        /\ ptrs_invalid' = FALSE
        /\ flog' = u.calls

\* ------------------------------------------------------------------ logs

NoName == <<"", 0>>

\* One entry of oplog.  The first entry of an operation names it, with its
\* argument and the cursor it found; the others are the backend commands it
\* issued, its warnings and its call of update_list_items, in order.  size
\* is the number an entry carries: the bytes asked of lvcreate, the
\* hundredths of a percent percent_used returned.
Call(op, name, arg, size) ==
    [op |-> op, name |-> name, arg |-> arg, size |-> size, sel |-> 0]

Enter(op, name, arg, size) ==
    [op |-> op, name |-> name, arg |-> arg, size |-> size, sel |-> m_selection]

BackendOps == {"lvcreate", "parted", "mount-internal-basic", "mkfs",
               "mount-external", "lvremove", "lvs"}

\* ------------------------------------------------------------ piso_error

Idle == pc = "idle" /\ ~halted

NoCur == [name |-> NoName, format |-> "none", first_partition |-> ""]

\* piso_error: the process ends where it stands; only the log moves.
Fatal(log) ==
    /\ halted' = TRUE
    /\ oplog' = log
    /\ UNCHANGED <<backend, m_drives, m_newdrive, m_options, m_list_items,
                   m_selection, ptrs_invalid, pc, cur, flog, removed>>

\* ------------------------------------------- rebuild_drives_from_volumes

\* rebuild_drives_from_volumes without the test of lv_attr.
DrivesFromVolumes_unfiltered(vols) ==
    [i \in 1..Len(vols) |-> VirtualDrive(vols[i].name)]

\* m_drives.clear(); one VirtualDrive per virtual volume of the report.
DrivesFromVolumes(vols) ==
    LET virt == VirtualVolumes(vols)
    IN  [i \in 1..Len(virt) |-> VirtualDrive(virt[i].name)]

\* The name the operation that has just returned created, if it was an
\* add_drive that ran to its end.
JustAdded ==
    IF oplog[1].op = "add_drive" /\ oplog[Len(oplog)].op = "update_list_items"
    THEN oplog[1].name
    ELSE NoName

\* The entry of the log notes which drive, if any, the directly preceding
\* add_drive created.
rebuild_drives_from_volumes ==
    /\ Idle
    /\ UNCHANGED <<item_renders, frame>>
    /\ update_list_items(DrivesFromVolumes(backend))
    /\ oplog' = <<Enter("rebuild_drives_from_volumes", JustAdded, "", 0),
                   Call("lvs", NoName, "", 0),
                   Call("update_list_items", NoName, "", 0)>>
    /\ UNCHANGED <<backend, pc, cur, halted, removed>>

\* ----------------------------------------------------------------- render

DisplayWidth == 128
DisplayHeight == 64
MENU_LEFT_SPACE == 10
SIDEBAR_SPACE == 2
GlyphWidth == 6
GlyphHeight == 8

\* A bitmap is its dimensions and whose pixels it holds: the list position
\* of the item that drew it, 0 for a bitmap render() composed itself.
Bitmap(w, h, by) == [w |-> w, h |-> h, by |-> by]

Max(a, b) == IF a > b THEN a ELSE b

\* Bitmap::blit(source, {x, y}, extend): without extend the destination
\* keeps its size and what falls outside it is dropped.
blit(dst, source, x, y, extend) ==
    IF extend
    THEN Bitmap(Max(dst.w, x + source.w), Max(dst.h, y + source.h), dst.by)
    ELSE dst

expand_height(b, n) == Bitmap(b.w, b.h + n, b.by)
expand_width(b, n) == Bitmap(b.w + n, b.h, b.by)

\* Bitmap::rotate(Direction::Left): a quarter turn swaps the dimensions.
rotate(b) == Bitmap(b.h, b.w, b.by)

\* What an item's render() may return: small, larger than the display,
\* and full screen at the display's size and at another.
ItemRenders ==
    {[w |-> 40, h |-> 8, mode |-> "NORMAL"],
     [w |-> 200, h |-> 40, mode |-> "NORMAL"],
     [w |-> 128, h |-> 64, mode |-> "FULLSCREEN"],
     [w |-> 64, h |-> 32, mode |-> "FULLSCREEN"]}

ItemBitmap(outs, k) == Bitmap(outs[k].w, outs[k].h, k)

\* The body of render()'s loop for one item that is not full screen.
Stack(bitmap, drive_bitmap) ==
    LET shifted == blit(Bitmap(drive_bitmap.w + MENU_LEFT_SPACE, drive_bitmap.h, 0),
                        drive_bitmap, MENU_LEFT_SPACE, 0, FALSE)
        old_height == bitmap.h
        taller == expand_height(bitmap, shifted.h)
        wider == IF shifted.w > taller.w
                 THEN expand_width(taller, shifted.w - taller.w)
                 ELSE taller
    IN  blit(wider, shifted, 0, old_height, TRUE)

RECURSIVE RenderLoop_last(_, _, _)
\* The loop going on after a FULLSCREEN item: the last such item wins.
RenderLoop_last(outs, k, bitmap) ==
    IF k > Len(outs) THEN [bitmap |-> bitmap, mode |-> IF bitmap.by = 0 THEN "NORMAL" ELSE "FULLSCREEN"]
    ELSE IF outs[k].mode = "FULLSCREEN"
         THEN RenderLoop_last(outs, k + 1, ItemBitmap(outs, k))
         ELSE RenderLoop_last(outs, k + 1, bitmap)

RECURSIVE RenderLoop(_, _, _)
\* for (const auto &item : m_list_items), from item k on: the frame of the
\* first item that reports FULLSCREEN, or else the stacked canvas.
RenderLoop(outs, k, bitmap) ==
    IF k > Len(outs) THEN [bitmap |-> bitmap, mode |-> "NORMAL"]
    ELSE IF outs[k].mode = "FULLSCREEN"
         THEN [bitmap |-> ItemBitmap(outs, k), mode |-> "FULLSCREEN"]
         ELSE RenderLoop(outs, k + 1, Stack(bitmap, ItemBitmap(outs, k)))

\* percent_used taking the last volume of the report, whatever its name.
percent_used_last(vols) ==
    IF vols = <<>> THEN -1 ELSE vols[Len(vols)].data_percent

\* pISO::percent_used(): the data_percent of the first volume of the report
\* called THINPOOL_NAME, in hundredths; -1 stands for piso_error.
percent_used(vols) ==
    IF \E i \in 1..Len(vols) : vols[i].name = THINPOOL_NAME
    THEN LET i == CHOOSE i \in 1..Len(vols) :
                    /\ vols[i].name = THINPOOL_NAME
                    /\ \A j \in 1..(i - 1) : vols[j].name # THINPOOL_NAME
         IN  vols[i].data_percent
    ELSE -1

\* int percent_free = 100 - percent_used(): the float is cut to an int.
PercentFree(hundredths) == (10000 - hundredths) \div 100

Digits(n) == IF n < 10 THEN 1 ELSE IF n < 100 THEN 2 ELSE 3

\* render_text(std::to_string(percent_free) + "% Free")
render_text(percent_free) ==
    Bitmap(GlyphWidth * (Digits(percent_free) + 6), GlyphHeight, 0)

\* Compose with the canvas blitted as the loop blits: extending the frame.
Compose_extend(bitmap, percent_free) ==
    LET out == blit(Bitmap(DisplayWidth, DisplayHeight, 0), bitmap, 0, 0, TRUE)
        sidebar == render_text(percent_free)
        turned == rotate(Bitmap(sidebar.w, sidebar.h + SIDEBAR_SPACE, 0))
    IN  blit(out, turned, out.w - turned.w, 0, FALSE)

\* Lines 221-235: the display-sized frame with the sidebar on its right.
Compose(bitmap, percent_free) ==
    LET out == blit(Bitmap(DisplayWidth, DisplayHeight, 0), bitmap, 0, 0, FALSE)
        sidebar == render_text(percent_free)
        bordered == blit(Bitmap(sidebar.w, sidebar.h + SIDEBAR_SPACE, 0),
                         sidebar, 0, SIDEBAR_SPACE, FALSE)
        turned == rotate(bordered)
    IN  blit(out, turned, out.w - turned.w, 0, FALSE)

NoFrame == [bitmap |-> Bitmap(0, 0, 0), mode |-> "none"]

\* render() asking percent_used before it asks the items.
render_percent_first ==
    LET outs == item_renders
        r == RenderLoop(outs, 1, Bitmap(0, 0, 0))
        used == percent_used(backend)
        enter == Enter("render", NoName, "", 0)
    IN  /\ Idle
        /\ Len(outs) = Len(m_list_items)
        /\ flog' = <<>>
        /\ IF used = -1
           THEN /\ frame' = NoFrame
                /\ oplog' = <<enter, Call("lvs", NoName, "", 0)>>
                /\ halted' = TRUE
           ELSE /\ frame' = IF r.mode = "FULLSCREEN" THEN r
                             ELSE [bitmap |-> Compose(r.bitmap, PercentFree(used)),
                                   mode |-> "NORMAL"]
                /\ oplog' = <<enter, Call("lvs", NoName, "", 0),
                              Call("percent_used", THINPOOL_NAME, "", used)>>
                /\ halted' = halted
        /\ UNCHANGED <<backend, m_drives, m_newdrive, m_options, m_list_items,
                       m_selection, ptrs_invalid, pc, cur, removed, item_renders>>

\* pISO::render(); item_renders holds what the items of the list return.
render ==
    LET outs == item_renders
        r == RenderLoop(outs, 1, Bitmap(0, 0, 0))
        used == percent_used(backend)
        enter == Enter("render", NoName, "", 0)
    IN  /\ Idle
        /\ Len(outs) = Len(m_list_items)
        /\ flog' = <<>>
        /\ IF r.mode = "FULLSCREEN"
           THEN /\ frame' = r
                /\ oplog' = <<enter>>
                /\ halted' = halted
           ELSE IF used = -1
           THEN /\ frame' = NoFrame
                /\ oplog' = <<enter, Call("lvs", NoName, "", 0)>>
                /\ halted' = TRUE
           ELSE /\ frame' = [bitmap |-> Compose(r.bitmap, PercentFree(used)),
                             mode |-> "NORMAL"]
                /\ oplog' = <<enter, Call("lvs", NoName, "", 0),
                              Call("percent_used", THINPOOL_NAME, "", used)>>
                /\ halted' = halted
        /\ UNCHANGED <<backend, m_drives, m_newdrive, m_options, m_list_items,
                       m_selection, ptrs_invalid, pc, cur, removed, item_renders>>

\* ------------------------------------------------------------------- Init

NoDup(s) == \A i, j \in 1..Len(s) : i # j => s[i] # s[j]

\* The sequences of at most n distinct elements of S.
SeqsOver(S, n) ==
    UNION {{s \in [1..k -> S] : NoDup(s)} : k \in 0..n}

InitBackends ==
    {pool \o [i \in 1..Len(ns) |-> Volume(ns[i], "V", "mounted-external", 500)] :
        pool \in {<<>>, <<Volume(THINPOOL_NAME, "t", "pool", 3725)>>},
        ns \in SeqsOver({DriveName(n) : n \in 1..MaxDrives}, MaxInit)}

\* pISO::pISO(): rebuild_drives_from_volumes() on the volumes found.
Constructed ==
    /\ backend \in InitBackends
    /\ LET u == ListUpdate(DrivesFromVolumes(backend),
                            [focused |-> FALSE], [focused |-> FALSE])
       IN  /\ m_drives = u.st.drives
           /\ m_newdrive = u.st.newdrive
           /\ m_options = u.st.options
           /\ m_list_items = u.list
           /\ m_selection = u.sel
           /\ flog = u.calls
    /\ ptrs_invalid = FALSE
    /\ pc = "idle"
    /\ cur = NoCur
    /\ halted = FALSE
    /\ oplog = <<[Call("pISO", NoName, "", 0) EXCEPT !.sel = 1],
                  Call("lvs", NoName, "", 0),
                  Call("update_list_items", NoName, "", 0)>>
    /\ removed = {}
    /\ frame = NoFrame

Init == Constructed /\ item_renders = <<>>

\* The same start, with what each item of the list returns from render().
InitRender ==
    Constructed /\ item_renders \in [1..Len(m_list_items) -> ItemRenders]

\* -------------------------------------------------------------- add_drive

\* EXFAT and NTFS use the ntfs type (the first switch of add_drive).
PartitionHint(format) ==
    CASE format \in {"MAC", "UNIVERSAL", "WINDOWS"} -> "ntfs"
      [] format = "LINUX" -> "ext3"

\* The second switch with the cases of the first: the tool follows the hint.
MkfsTool_as_hint(format) ==
    CASE format \in {"MAC", "UNIVERSAL", "WINDOWS"} -> "mkfs.ntfs"
      [] format = "LINUX" -> "mkfs.ext3"

\* The second switch of add_drive.
MkfsTool(format) ==
    CASE format = "WINDOWS" -> "mkfs.ntfs"
      [] format = "LINUX" -> "mkfs.ext3"
      [] format \in {"MAC", "UNIVERSAL"} -> "mkfs.exfat"

\* What vdrive.sh mount-internal-basic may print: one device path a line.
LoopbackOutputs ==
    {<<>>, <<"/dev/mapper/loop0p1">>, <<"/dev/mapper/loop0p1", "/dev/mapper/loop0p2">>}

\* std::getline(partitions, first_partition, '\n')
FirstLine(lines) == IF lines = <<>> THEN "" ELSE Head(lines)

\* mkfs.* needs a device to write to.
mkfs_accepts(partition) == partition # ""

\* add_drive_lvcreate going on whatever lvcreate answered.
add_drive_lvcreate_unchecked(size, format, ok) ==
    LET name == DriveName(Len(m_drives) + 1)
    IN  /\ Idle
        /\ UNCHANGED <<item_renders, frame>>
        /\ Len(m_drives) < MaxDrives
        /\ backend' = IF lvcreate_accepts(backend, name)
                      THEN Append(backend, Volume(name, "V", "created", 0))
                      ELSE backend
        /\ m_drives' = Append(m_drives, VirtualDrive(name))
        /\ ptrs_invalid' = TRUE
        /\ pc' = "parted"
        /\ cur' = [name |-> name, format |-> format, first_partition |-> ""]
        /\ oplog' = <<Enter("add_drive", name, format, size),
                      Call("lvcreate", name, "", size)>>
        /\ flog' = <<>>
        /\ UNCHANGED <<m_newdrive, m_options, m_list_items, m_selection,
                       halted, removed>>

\* add_drive_lvcreate leaving the emplace_back for later.
add_drive_lvcreate_no_append(size, format, ok) ==
    LET name == DriveName(Len(m_drives) + 1)
        log == <<Enter("add_drive", name, format, size),
                 Call("lvcreate", name, "", size)>>
    IN  /\ Idle
        /\ UNCHANGED <<item_renders, frame>>
        /\ Len(m_drives) < MaxDrives
        /\ IF ok /\ lvcreate_accepts(backend, name)
           THEN /\ backend' = Append(backend, Volume(name, "V", "created", 0))
                /\ pc' = "parted"
                /\ cur' = [name |-> name, format |-> format, first_partition |-> ""]
                /\ oplog' = log
                /\ flog' = <<>>
                /\ UNCHANGED <<m_drives, ptrs_invalid, m_newdrive, m_options,
                               m_list_items, m_selection, halted, removed>>
           ELSE Fatal(log)

\* Lines 101-107: the name, lvcreate, m_drives.emplace_back(name).
add_drive_lvcreate(size, format, ok) ==
    LET name == DriveName(Len(m_drives) + 1)
        log == <<Enter("add_drive", name, format, size),
                 Call("lvcreate", name, "", size)>>
    IN  /\ Idle
        /\ UNCHANGED <<item_renders, frame>>
        /\ Len(m_drives) < MaxDrives
        /\ IF ok /\ lvcreate_accepts(backend, name)
           THEN /\ backend' = Append(backend, Volume(name, "V", "created", 0))
                /\ m_drives' = Append(m_drives, VirtualDrive(name))
                /\ ptrs_invalid' = TRUE
                /\ pc' = "parted"
                /\ cur' = [name |-> name, format |-> format, first_partition |-> ""]
                /\ oplog' = log
                /\ flog' = <<>>
                /\ UNCHANGED <<m_newdrive, m_options, m_list_items, m_selection,
                               halted, removed>>
           ELSE Fatal(log)

\* add_drive going from parted straight to mkfs.
add_drive_parted_then_mkfs(ok) ==
    LET log == Append(oplog, Call("parted", cur.name, PartitionHint(cur.format), 0))
    IN  /\ pc = "parted" /\ ~halted
        /\ UNCHANGED <<item_renders, frame>>
        /\ IF ok
           THEN /\ backend' = SetStage(backend, cur.name, "partitioned")
                /\ pc' = "mkfs"
                /\ oplog' = log
                /\ cur' = [cur EXCEPT !.first_partition = "/dev/mapper/loop0p1"]
                /\ UNCHANGED <<m_drives, m_newdrive, m_options, m_list_items,
                               m_selection, ptrs_invalid, halted, flog, removed>>
           ELSE Fatal(log)

\* Lines 109-121: parted, with the hint the format selects.
add_drive_parted(ok) ==
    LET log == Append(oplog, Call("parted", cur.name, PartitionHint(cur.format), 0))
    IN  /\ pc = "parted" /\ ~halted
        /\ UNCHANGED <<item_renders, frame>>
        /\ IF ok
           THEN /\ backend' = SetStage(backend, cur.name, "partitioned")
                /\ pc' = "mount-internal-basic"
                /\ oplog' = log
                /\ UNCHANGED <<m_drives, m_newdrive, m_options, m_list_items,
                               m_selection, ptrs_invalid, cur, halted, flog, removed>>
           ELSE Fatal(log)

\* Lines 123-130: the loopback mount, and the first line of what it prints.
add_drive_mount_internal(ok, output) ==
    LET log == Append(oplog, Call("mount-internal-basic", cur.name, "", 0))
    IN  /\ pc = "mount-internal-basic" /\ ~halted
        /\ UNCHANGED <<item_renders, frame>>
        /\ IF ok
           THEN /\ backend' = SetStage(backend, cur.name, "mounted-internal")
                /\ cur' = [cur EXCEPT !.first_partition = FirstLine(output)]
                /\ pc' = "mkfs"
                /\ oplog' = log
                /\ UNCHANGED <<m_drives, m_newdrive, m_options, m_list_items,
                               m_selection, ptrs_invalid, halted, flog, removed>>
           ELSE Fatal(log)

\* add_drive_mkfs undoing the provisioning when mkfs fails.
add_drive_mkfs_rollback(ok) ==
    LET log == Append(oplog, Call("mkfs", cur.name, MkfsTool(cur.format), 0))
    IN  /\ pc = "mkfs" /\ ~halted
        /\ UNCHANGED <<item_renders, frame>>
        /\ IF ok /\ mkfs_accepts(cur.first_partition)
           THEN /\ backend' = SetStage(backend, cur.name, "formatted")
                /\ pc' = "mount-external"
                /\ oplog' = log
                /\ UNCHANGED <<m_drives, m_newdrive, m_options, m_list_items,
                               m_selection, ptrs_invalid, cur, halted, flog, removed>>
           ELSE /\ backend' = WithoutVolume(backend, cur.name)
                /\ oplog' = Append(log, Call("lvremove", cur.name, "", 0))
                /\ halted' = TRUE
                /\ UNCHANGED <<m_drives, m_newdrive, m_options, m_list_items,
                               m_selection, ptrs_invalid, pc, cur, flog, removed>>

\* Lines 132-144: mkfs on first_partition, with the tool the format selects.
add_drive_mkfs(ok) ==
    LET log == Append(oplog, Call("mkfs", cur.name, MkfsTool(cur.format), 0))
    IN  /\ pc = "mkfs" /\ ~halted
        /\ UNCHANGED <<item_renders, frame>>
        /\ IF ok /\ mkfs_accepts(cur.first_partition)
           THEN /\ backend' = SetStage(backend, cur.name, "formatted")
                /\ pc' = "mount-external"
                /\ oplog' = log
                /\ UNCHANGED <<m_drives, m_newdrive, m_options, m_list_items,
                               m_selection, ptrs_invalid, cur, halted, flog, removed>>
           ELSE Fatal(log)

\* Lines 146-149: m_drives.back().mount_external(); update_list_items().
add_drive_mount_external(ok) ==
    LET log == Append(oplog, Call("mount-external", cur.name, "", 0))
        last == Len(m_drives)
    IN  /\ pc = "mount-external" /\ ~halted
        /\ UNCHANGED <<item_renders, frame>>
        /\ IF ok
           THEN /\ backend' = SetStage(backend, cur.name, "mounted-external")
                /\ update_list_items(
                       [m_drives EXCEPT ![last] = mount_external(m_drives[last])])
                /\ pc' = "idle"
                /\ cur' = NoCur
                /\ oplog' = Append(log, Call("update_list_items", NoName, "", 0))
                /\ UNCHANGED <<halted, removed>>
           ELSE Fatal(log)

\* ----------------------------------------------------------- remove_drive

\* std::find(m_drives.begin(), m_drives.end(), drive): the first position
\* holding a drive equal to the argument, 0 for end().
Find(drives, name) ==
    IF \E i \in 1..Len(drives) : drives[i].name = name
    THEN CHOOSE i \in 1..Len(drives) :
            /\ drives[i].name = name
            /\ \A j \in 1..(i - 1) : drives[j].name # name
    ELSE 0

\* m_drives.erase(drive_iter, m_drives.end())
Erase_to_end(drives, i) == SubSeq(drives, 1, i - 1)

\* m_drives.erase(drive_iter)
Erase(drives, i) ==
    [k \in 1..(Len(drives) - 1) |-> IF k < i THEN drives[k] ELSE drives[k + 1]]

\* remove_drive without the return after its warning.
remove_drive_no_return(name, ok) ==
    LET drive_iter == Find(m_drives, name)
        enter == Enter("remove_drive", name, "", 0)
        warned == IF drive_iter = 0
                  THEN <<enter, Call("warning", NoName, "drive not found", 0)>>
                  ELSE <<enter>>
        log == Append(warned, Call("lvremove", name, "", 0))
    IN  /\ Idle
        /\ UNCHANGED <<item_renders, frame>>
        /\ IF drive_iter # 0 /\ ok /\ lvremove_accepts(backend, name)
           THEN /\ backend' = WithoutVolume(backend, name)
                /\ update_list_items(Erase(m_drives, drive_iter))
                /\ oplog' = Append(log, Call("update_list_items", NoName, "", 0))
                /\ removed' = removed \cup {name}
                /\ UNCHANGED <<pc, cur, halted>>
           ELSE Fatal(log)

\* remove_drive without its call of update_list_items.
remove_drive_no_update(name, ok) ==
    LET drive_iter == Find(m_drives, name)
        enter == Enter("remove_drive", name, "", 0)
        log == <<enter, Call("lvremove", name, "", 0)>>
    IN  /\ Idle
        /\ UNCHANGED <<item_renders, frame>>
        /\ IF drive_iter = 0
           THEN /\ oplog' = <<enter, Call("warning", NoName, "drive not found", 0)>>
                /\ flog' = <<>>
                /\ UNCHANGED <<backend, m_drives, m_newdrive, m_options,
                               m_list_items, m_selection, ptrs_invalid, pc, cur,
                               halted, removed>>
           ELSE IF ok /\ lvremove_accepts(backend, name)
           THEN /\ backend' = WithoutVolume(backend, name)
                /\ m_drives' = Erase(m_drives, drive_iter)
                /\ ptrs_invalid' = TRUE
                /\ oplog' = log
                /\ flog' = <<>>
                /\ removed' = removed \cup {name}
                /\ UNCHANGED <<m_newdrive, m_options, m_list_items, m_selection,
                               pc, cur, halted>>
           ELSE Fatal(log)

\* remove_drive erasing the drive before it asks the backend to.
remove_drive_erase_first(name, ok) ==
    LET drive_iter == Find(m_drives, name)
        enter == Enter("remove_drive", name, "", 0)
        log == <<enter, Call("lvremove", name, "", 0)>>
    IN  /\ Idle
        /\ UNCHANGED <<item_renders, frame>>
        /\ IF drive_iter = 0
           THEN /\ oplog' = <<enter, Call("warning", NoName, "drive not found", 0)>>
                /\ flog' = <<>>
                /\ UNCHANGED <<backend, m_drives, m_newdrive, m_options,
                               m_list_items, m_selection, ptrs_invalid, pc, cur,
                               halted, removed>>
           ELSE IF ok /\ lvremove_accepts(backend, name)
           THEN /\ backend' = WithoutVolume(backend, name)
                /\ update_list_items(Erase(m_drives, drive_iter))
                /\ oplog' = Append(log, Call("update_list_items", NoName, "", 0))
                /\ removed' = removed \cup {name}
                /\ UNCHANGED <<pc, cur, halted>>
           ELSE /\ m_drives' = Erase(m_drives, drive_iter)
                /\ ptrs_invalid' = TRUE
                /\ halted' = TRUE
                /\ oplog' = log
                /\ UNCHANGED <<backend, m_newdrive, m_options, m_list_items,
                               m_selection, pc, cur, flog, removed>>

remove_drive(name, ok) ==
    LET drive_iter == Find(m_drives, name)
        enter == Enter("remove_drive", name, "", 0)
        log == <<enter, Call("lvremove", name, "", 0)>>
    IN  /\ Idle
        /\ UNCHANGED <<item_renders, frame>>
        /\ IF drive_iter = 0
           THEN /\ oplog' = <<enter, Call("warning", NoName, "drive not found", 0)>>
                /\ flog' = <<>>
                /\ UNCHANGED <<backend, m_drives, m_newdrive, m_options,
                               m_list_items, m_selection, ptrs_invalid, pc, cur,
                               halted, removed>>
           ELSE IF ok /\ lvremove_accepts(backend, name)
           THEN /\ backend' = WithoutVolume(backend, name)
                /\ update_list_items(Erase(m_drives, drive_iter))
                /\ oplog' = Append(log, Call("update_list_items", NoName, "", 0))
                /\ removed' = removed \cup {name}
                /\ UNCHANGED <<pc, cur, halted>>
           ELSE Fatal(log)

\* ------------------------------------------------------------- navigation

\* GUIListItem::on_next / on_prev (dir = 1 / -1): the focused item is asked
\* first; when it does not consume the event and the list has an item in
\* that direction, the cursor moves there, the old item loses focus and the
\* new one gains it.  At either end of the list the cursor stays.
GUIListItem_move(st, list, sel, dir, consumed) ==
    LET to == sel + dir
    IN  IF has_selection(list, sel) /\ ~consumed /\ to \in 1..Len(list)
        THEN [sel |-> to,
              st |-> on_focus(on_lose_focus(st, list[sel]), list[to]),
              calls |-> <<LoseEv(list[sel]), FocusEv(list[to])>>]
        ELSE [sel |-> sel, st |-> st, calls |-> <<>>]

GUIListItem_on_next(st, list, sel, consumed) ==
    GUIListItem_move(st, list, sel, 1, consumed)

GUIListItem_on_prev(st, list, sel, consumed) ==
    GUIListItem_move(st, list, sel, -1, consumed)

\* GUIListItem::on_select: handed to the focused item; the cursor stays.
GUIListItem_on_select(st, list, sel, consumed) ==
    [sel |-> sel, st |-> st, calls |-> <<>>]

Consumed(b) == IF b THEN "consumed" ELSE "not consumed"

\* The controller after a navigation call that left it as r.
Navigated(r, enter) ==
    /\ m_selection' = r.sel
    /\ m_drives' = r.st.drives
    /\ m_newdrive' = r.st.newdrive
    /\ m_options' = r.st.options
    /\ flog' = r.calls
    /\ oplog' = <<enter>>
    /\ UNCHANGED <<backend, m_list_items, ptrs_invalid, pc, cur, halted, removed>>
    /\ UNCHANGED <<item_renders, frame>>

on_select(consumed) ==
    /\ Idle
    /\ Navigated(GUIListItem_on_select(Store(m_drives, m_newdrive, m_options),
                                       m_list_items, m_selection, consumed),
                 Enter("on_select", NoName, Consumed(consumed), 0))

\* pISO::on_next handing the event to GUIListItem::on_prev.
on_next_as_prev(consumed) ==
    /\ Idle
    /\ Navigated(GUIListItem_on_prev(Store(m_drives, m_newdrive, m_options),
                                     m_list_items, m_selection, consumed),
                 Enter("on_next", NoName, Consumed(consumed), 0))

on_next(consumed) ==
    /\ Idle
    /\ Navigated(GUIListItem_on_next(Store(m_drives, m_newdrive, m_options),
                                     m_list_items, m_selection, consumed),
                 Enter("on_next", NoName, Consumed(consumed), 0))

on_prev(consumed) ==
    /\ Idle
    /\ Navigated(GUIListItem_on_prev(Store(m_drives, m_newdrive, m_options),
                                     m_list_items, m_selection, consumed),
                 Enter("on_prev", NoName, Consumed(consumed), 0))

\* The operations of the controller; none of them renders.
Next ==
    \/ rebuild_drives_from_volumes
    \/ \E size \in Sizes, format \in Formats, ok \in BOOLEAN :
          add_drive_lvcreate(size, format, ok)
    \/ \E ok \in BOOLEAN : add_drive_parted(ok)
    \/ \E ok \in BOOLEAN, output \in LoopbackOutputs :
          add_drive_mount_internal(ok, output)
    \/ \E ok \in BOOLEAN : add_drive_mkfs(ok)
    \/ \E ok \in BOOLEAN : add_drive_mount_external(ok)
    \/ \E name \in Names, ok \in BOOLEAN : remove_drive(name, ok)
    \/ \E consumed \in BOOLEAN : on_select(consumed)
    \/ \E consumed \in BOOLEAN : on_next(consumed)
    \/ \E consumed \in BOOLEAN : on_prev(consumed)

Spec == Init /\ [][Next]_vars

\* render() on the lists the start-up leaves, wherever the cursor stands.
NextRender ==
    \/ render
    \/ on_next(FALSE)

SpecRender == InitRender /\ [][NextRender]_vars

\* ----------------------------------------------------------------- claims

TheStore == Store(m_drives, m_newdrive, m_options)

FocusedPositions == {k \in 1..Len(m_list_items) : IsFocused(TheStore, m_list_items[k])}

LastOp == oplog[1].op

Rebuilt == oplog[Len(oplog)].op = "update_list_items"

BackendCalls(log) == {i \in 1..Len(log) : log[i].op \in BackendOps}

\* C1: at every moment, no two drives of m_drives have the same name.
C1_UniqueNames ==
    \A i, j \in 1..Len(m_drives) : i # j => m_drives[i].name # m_drives[j].name

\* C1's case: after a removal, add_drive computed the name of a drive that
\* is still live, and lvcreate refused it.
C1_Witness ==
    /\ halted
    /\ LastOp = "add_drive"
    /\ removed # {}
    /\ \E i \in 1..Len(m_drives) : m_drives[i].name = oplog[1].name

\* C2: the name add_drive generates is the name of no drive removed earlier.
C2_NeverReused ==
    (LastOp = "add_drive" /\ Rebuilt) => oplog[1].name \notin removed

\* C3: a remove_drive of a drive that is not in m_drives changes neither the
\* drives, the list, the cursor nor a focus flag, issues no backend command,
\* does not rebuild the list, and warns.
C3_RemoveAbsent ==
    [][(oplog'[1].op = "remove_drive" /\ Find(m_drives, oplog'[1].name) = 0)
        => /\ UNCHANGED <<backend, m_drives, m_newdrive, m_options,
                          m_list_items, m_selection, halted>>
           /\ BackendCalls(oplog') = {}
           /\ \A i \in 1..Len(oplog') : oplog'[i].op # "update_list_items"
           /\ flog' = <<>>
           /\ \E i \in 1..Len(oplog') : oplog'[i].op = "warning"]_vars

\* C3's case: the drive was not there, with the cursor away from the first
\* item and a drive to lose.
C3_Witness ==
    /\ LastOp = "remove_drive"
    /\ oplog[Len(oplog)].op = "warning"
    /\ Len(m_drives) >= 1
    /\ m_selection > 1
    /\ ~halted

\* C4: after every rebuild of the list exactly one item has focus, the first
\* one; every item of the new list got on_lose_focus, and the one on_focus,
\* on the first item, came after all of them.
C4_RebuildFocus ==
    (Rebuilt /\ pc = "idle") =>
        LET n == Len(m_list_items)
        IN  /\ FocusedPositions = {1}
            /\ Len(flog) = n + 1
            /\ \A k \in 1..n : \E i \in 1..n : flog[i] = LoseEv(m_list_items[k])
            /\ \A i \in 1..n : flog[i].ev = "on_lose_focus"
            /\ flog[n + 1] = FocusEv(m_list_items[1])

\* C4's case: the list is rebuilt while the focus is on a later item that
\* stays in the list.
C4_Witness ==
    /\ Rebuilt
    /\ LastOp = "add_drive"
    /\ oplog[1].sel = 2
    /\ Len(m_drives) = 3

\* C5: between operations the cursor is a position of the current list, and
\* that list points at live drives only; after a rebuild it is the first.
C5_CursorValid ==
    pc = "idle" =>
        /\ ~ptrs_invalid
        /\ m_selection \in 1..Len(m_list_items)
        /\ \A k \in 1..Len(m_list_items) :
              m_list_items[k].kind = "drive"
                  => m_list_items[k].idx \in 1..Len(m_drives)
        /\ Rebuilt => m_selection = 1

\* C5's case: the selected drive itself is removed.
C5_Witness ==
    /\ LastOp = "remove_drive"
    /\ Rebuilt
    /\ oplog[1].sel > 1
    /\ Len(m_drives) >= 1
    /\ m_selection = 1

Rendered == frame.mode # "none"

FullscreenItems == {k \in 1..Len(item_renders) : item_renders[k].mode = "FULLSCREEN"}

\* C6 as stated: whichever item reports FULLSCREEN, render() returns that
\* item's bitmap and mode, other FULLSCREEN items or not.
C6_AnyFullscreenItem ==
    Rendered =>
        \A k \in FullscreenItems :
            frame = [bitmap |-> ItemBitmap(item_renders, k), mode |-> "FULLSCREEN"]

\* C6, amended: render() returns the bitmap and mode of the first item of
\* the list that reports FULLSCREEN, whatever the items before and after it
\* return; and it does return, thin pool or not.
C6_FirstFullscreenItem ==
    /\ Rendered =>
          \A k \in FullscreenItems :
              (\A j \in FullscreenItems : k <= j)
                  => frame = [bitmap |-> ItemBitmap(item_renders, k),
                              mode |-> "FULLSCREEN"]
    /\ (LastOp = "render" /\ FullscreenItems # {}) => (Rendered /\ ~halted)

\* C6's case: two items report FULLSCREEN, neither of them the first item.
C6_Witness ==
    /\ Rendered
    /\ Cardinality(FullscreenItems) = 2
    /\ 1 \notin FullscreenItems
    /\ frame.mode = "FULLSCREEN"

C9_EveryFrameDisplaySized ==
    Rendered => (frame.bitmap.w = DisplayWidth /\ frame.bitmap.h = DisplayHeight)

\* C9, amended: when no item reports FULLSCREEN a frame render() returns is
\* NORMAL and has exactly the display's dimensions, however many and large
\* the items; a FULLSCREEN frame has the dimensions of the item's bitmap.
C9_NormalFrameDisplaySized ==
    Rendered =>
        /\ FullscreenItems = {} <=> frame.mode = "NORMAL"
        /\ frame.mode = "NORMAL" =>
              (frame.bitmap.w = DisplayWidth /\ frame.bitmap.h = DisplayHeight)
        /\ frame.mode = "FULLSCREEN" =>
              \E k \in FullscreenItems :
                  /\ frame.bitmap.w = item_renders[k].w
                  /\ frame.bitmap.h = item_renders[k].h

\* C9's case: four items, each wider and all together taller than the
\* display, composed into a NORMAL frame.
C9_Witness ==
    /\ Rendered
    /\ frame.mode = "NORMAL"
    /\ Len(item_renders) = 4
    /\ \A k \in 1..Len(item_renders) : item_renders[k].w > DisplayWidth

AddOrder ==
    <<"lvcreate", "parted", "mount-internal-basic", "mkfs", "mount-external",
      "update_list_items">>

StageAfter ==
    <<"created", "partitioned", "mounted-internal", "formatted", "mounted-external">>

StageOf(name) ==
    LET i == CHOOSE i \in 1..Len(backend) : backend[i].name = name
    IN  backend[i].stage

\* C10: the steps of one add_drive are, in this order and each at most once,
\* lvcreate, parted, the internal mount, mkfs, the external mount and the
\* list rebuild; a step is issued only when the one before it has succeeded.
C10_AddDriveOrder ==
    LastOp = "add_drive" =>
        /\ Len(oplog) - 1 <= Len(AddOrder)
        /\ \A i \in 2..Len(oplog) : oplog[i].op = AddOrder[i - 1]
        /\ (pc # "idle" /\ ~halted) =>
              /\ pc = AddOrder[Len(oplog)]
              /\ StageOf(cur.name) = StageAfter[Len(oplog) - 1]

\* C10's case: an add_drive that ran through all its steps.
C10_Witness ==
    /\ LastOp = "add_drive"
    /\ Len(oplog) = 7
    /\ pc = "idle"
    /\ ~halted

OpsOf(log, op) == {i \in 1..Len(log) : log[i].op = op}

DriveNames(drives) == [i \in 1..Len(drives) |-> drives[i].name]

\* C11: add_drive partitions with hint ntfs for WINDOWS, MAC and UNIVERSAL and
\* ext3 for LINUX, formats with mkfs.ntfs for WINDOWS, mkfs.ext3 for LINUX and
\* mkfs.exfat for MAC and UNIVERSAL; a call that returns has issued exactly
\* one parted and one mkfs, and no call issues more.
C11_HintAndTool ==
    LastOp = "add_drive" =>
        LET format == oplog[1].arg
        IN  /\ format \in {"WINDOWS", "LINUX", "MAC", "UNIVERSAL"}
            /\ \A i \in OpsOf(oplog, "parted") :
                  oplog[i].arg = (IF format = "LINUX" THEN "ext3" ELSE "ntfs")
            /\ \A i \in OpsOf(oplog, "mkfs") :
                  oplog[i].arg = (IF format = "WINDOWS" THEN "mkfs.ntfs"
                                  ELSE IF format = "LINUX" THEN "mkfs.ext3"
                                  ELSE "mkfs.exfat")
            /\ Cardinality(OpsOf(oplog, "parted")) <= 1
            /\ Cardinality(OpsOf(oplog, "mkfs")) <= 1
            /\ Rebuilt => /\ Cardinality(OpsOf(oplog, "parted")) = 1
                          /\ Cardinality(OpsOf(oplog, "mkfs")) = 1

\* C11's case: a MAC drive, whose hint and tool differ, provisioned to the end.
C11_Witness ==
    /\ LastOp = "add_drive"
    /\ oplog[1].arg = "MAC"
    /\ Rebuilt
    /\ \E i \in OpsOf(oplog, "mkfs") : oplog[i].arg = "mkfs.exfat"
    /\ \E i \in OpsOf(oplog, "parted") : oplog[i].arg = "ntfs"

\* C12: remove_drive of a drive that is in m_drives issues one lvremove for
\* its name and nothing else to the backend; when that fails nothing has
\* changed; otherwise exactly that drive is gone, the others keep their
\* order, and the list is rebuilt with cursor and focus on the first item.
C12_RemovePresent ==
    [][(oplog'[1].op = "remove_drive" /\ Find(m_drives, oplog'[1].name) # 0) =>
          LET name == oplog'[1].name
              at == Find(m_drives, name)
              before == DriveNames(m_drives)
          IN  /\ BackendCalls(oplog') = {2}
              /\ oplog'[2].op = "lvremove" /\ oplog'[2].name = name
              /\ halted' => /\ UNCHANGED <<backend, m_drives, m_list_items, m_selection>>
                            /\ Len(oplog') = 2
              /\ ~halted' =>
                    /\ DriveNames(m_drives') =
                          SubSeq(before, 1, at - 1) \o SubSeq(before, at + 1, Len(before))
                    /\ name \notin VolumeNames(backend')
                    /\ Len(backend') = Len(backend) - 1
                    /\ Len(oplog') = 3 /\ oplog'[3].op = "update_list_items"
                    /\ Len(m_list_items') = Len(m_drives') + 2
                    /\ m_selection' = 1
                    /\ FocusedPositions' = {1}]_vars

\* C12's case: the middle one of three drives is removed.
C12_Witness ==
    /\ LastOp = "remove_drive"
    /\ Rebuilt
    /\ oplog[1].name = DriveName(2)
    /\ DriveNames(m_drives) = <<DriveName(1), DriveName(3)>>

\* C13: an add_drive that a backend step ended stands at that step: the log
\* ends with the failed command, the list was not rebuilt, nothing was
\* undone, and the volume lvcreate made is still in the backend, in the
\* stage the last step that succeeded left it in.
C13_FatalNoRollback ==
    (halted /\ LastOp = "add_drive") =>
        LET n == Len(oplog) - 1
        IN  /\ n \in 1..5
            /\ \A i \in 2..Len(oplog) : oplog[i].op = AddOrder[i - 1]
            /\ OpsOf(oplog, "update_list_items") = {}
            /\ OpsOf(oplog, "lvremove") = {}
            /\ n >= 2 =>
                  /\ pc = AddOrder[n]
                  /\ ptrs_invalid
                  /\ Len(m_list_items) = Len(m_drives) + 1
                  /\ \E i \in 1..Len(backend) :
                        /\ backend[i].name = oplog[1].name
                        /\ backend[i].stage = StageAfter[n - 1]

\* C13's case: mkfs fails after parted and the internal mount succeeded.
C13_Witness ==
    /\ halted
    /\ LastOp = "add_drive"
    /\ pc = "mkfs"
    /\ \E i \in 1..Len(backend) :
          backend[i].name = cur.name /\ backend[i].stage = "mounted-internal"

\* C14: between operations the list is the drives in m_drives order, then
\* the new-drive item, then the options item: as long as m_drives plus two,
\* never empty, and with a selection.
C14_ListShape ==
    pc = "idle" =>
        LET n == Len(m_list_items)
        IN  /\ n = Len(m_drives) + 2
            /\ \A i \in 1..Len(m_drives) :
                  m_list_items[i].kind = "drive" /\ m_list_items[i].idx = i
            /\ m_list_items[n - 1].kind = "newdrive"
            /\ m_list_items[n].kind = "options"
            /\ ~ptrs_invalid
            /\ m_selection \in 1..n

\* C14's case: the list after the third drive was added.
C14_Witness ==
    /\ pc = "idle"
    /\ LastOp = "add_drive"
    /\ Rebuilt
    /\ Len(m_list_items) = 5

VirtualPositions == {i \in 1..Len(backend) : backend[i].attr = "V"}

\* C15: after pISO() and after rebuild_drives_from_volumes, m_drives is one
\* freshly built drive for each volume whose attribute is virtual, in the
\* order of the report; no other volume is a drive; the list was rebuilt.
C15_DrivesAreVirtualVolumes ==
    LastOp \in {"pISO", "rebuild_drives_from_volumes"} =>
        /\ Len(m_drives) = Cardinality(VirtualPositions)
        /\ \A k \in 1..Len(m_drives) :
              \E i \in VirtualPositions :
                  /\ Cardinality({j \in VirtualPositions : j < i}) = k - 1
                  /\ m_drives[k].name = backend[i].name
                  /\ m_drives[k].mount = "unmounted"
        /\ \A k \in 1..Len(m_drives) : m_drives[k].name # THINPOOL_NAME
        /\ Rebuilt
        /\ Len(m_list_items) = Len(m_drives) + 2

\* C15's case: a rebuild with the thin pool and three drives in the report,
\* the last of them mounted by the add_drive just before.
C15_Witness ==
    /\ LastOp = "rebuild_drives_from_volumes"
    /\ oplog[1].name # NoName
    /\ THINPOOL_NAME \in VolumeNames(backend)
    /\ Len(m_drives) = 3

Provisioning == pc \in {"parted", "mount-internal-basic", "mkfs", "mount-external"}

\* C16 as stated: until add_drive has mounted the drive externally, m_drives
\* does not hold the new drive.
C16_AppendedLast ==
    Provisioning => \A i \in 1..Len(m_drives) : m_drives[i].name # cur.name

LastDriveIs(name, mount) ==
    /\ Len(m_drives) >= 1
    /\ m_drives[Len(m_drives)].name = name
    /\ m_drives[Len(m_drives)].mount = mount

\* C16, amended: add_drive appends the new drive to m_drives right after
\* lvcreate has succeeded, before parted, and not when lvcreate fails; until
\* the list rebuild, its last step, the menu list does not hold the drive.
C16_AppendedAfterCreate ==
    /\ Provisioning =>
          /\ LastDriveIs(cur.name, "unmounted")
          /\ cur.name = DriveName(Len(m_drives))
          /\ Len(m_list_items) = Len(m_drives) + 1
    /\ (LastOp = "add_drive" /\ Len(oplog) = 2 /\ halted) =>
          /\ oplog[1].name = DriveName(Len(m_drives) + 1)
          /\ Len(m_list_items) = Len(m_drives) + 2
    /\ (LastOp = "add_drive" /\ Rebuilt) =>
          /\ LastDriveIs(oplog[1].name, "mounted-external")
          /\ Len(m_list_items) = Len(m_drives) + 2

\* C16's case: the drive is in m_drives while its volume is not yet formatted.
C16_Witness ==
    /\ pc = "mkfs"
    /\ ~halted
    /\ LastDriveIs(cur.name, "unmounted")
    /\ Len(m_drives) = 2

PoolReported == \E i \in 1..Len(backend) : backend[i].name = THINPOOL_NAME

\* C17: percent_used returns the data percentage of the volume called
\* THINPOOL_NAME and ends the process when the report has none; so a
\* render() in which no item reports FULLSCREEN returns a frame when the
\* thin pool is reported and is fatal when it is not.
C17_PercentUsed ==
    (LastOp = "render" /\ FullscreenItems = {}) =>
        /\ PoolReported =>
              /\ ~halted
              /\ Rendered
              /\ \E i \in OpsOf(oplog, "percent_used"), v \in 1..Len(backend) :
                    /\ backend[v].name = THINPOOL_NAME
                    /\ oplog[i].size = backend[v].data_percent
        /\ ~PoolReported =>
              /\ halted
              /\ ~Rendered
              /\ OpsOf(oplog, "percent_used") = {}

\* C17's case: drives but no thin pool in the report, and no item FULLSCREEN.
C17_Witness ==
    /\ LastOp = "render"
    /\ halted
    /\ FullscreenItems = {}
    /\ Len(m_drives) = 2

VirtualNames == {backend[i].name : i \in VirtualPositions}

LiveNames == {m_drives[i].name : i \in 1..Len(m_drives)}

\* C18: the names of m_drives are the names of the backend's virtual volumes,
\* after every operation and also where a backend command ended the process:
\* a drive is recorded only once lvcreate has made its volume, and erased
\* only once lvremove has deleted it.
C18_DrivesMatchBackend ==
    /\ LiveNames = VirtualNames
    /\ (LastOp = "add_drive" /\ halted /\ Len(oplog) = 2) =>
          oplog[1].name = DriveName(Len(m_drives) + 1)
    /\ (LastOp = "remove_drive" /\ halted) =>
          (oplog[1].name \in LiveNames /\ oplog[1].name \in VirtualNames)

\* C18's case: a drive added after another was removed, both in the backend
\* and in m_drives.
C18_Witness ==
    /\ LastOp = "add_drive"
    /\ Rebuilt
    /\ removed # {}
    /\ Len(m_drives) = 2
    /\ Cardinality(VirtualNames) = 2

\* C19: render() changes neither the backend, the drives, the list, the
\* cursor nor a focus flag; the one backend command it issues is the report
\* query, and it issues it exactly when no item reports FULLSCREEN.
C19_RenderFrame ==
    [][oplog'[1].op = "render" =>
          /\ UNCHANGED <<backend, m_drives, m_newdrive, m_options, m_list_items,
                         m_selection, ptrs_invalid, item_renders>>
          /\ flog' = <<>>
          /\ \A i \in BackendCalls(oplog') : oplog'[i].op = "lvs"
          /\ (BackendCalls(oplog') # {}) <=> (FullscreenItems = {})
          /\ Cardinality(BackendCalls(oplog')) <= 1]_vars

\* C19's case: a FULLSCREEN frame rendered with the cursor moved and no thin
\* pool to ask.
C19_Witness ==
    /\ LastOp = "render"
    /\ frame.mode = "FULLSCREEN"
    /\ m_selection > 1
    /\ ~PoolReported
    /\ ~halted
====
